---- MODULE Spec2Model ----
\* Model acquisition pipeline of the Explainable-AI visualizer:
\* ModelLoaderContext (strategy chain), ModelAdapter, ModelController.
EXTENDS Integers, Sequences, FiniteSets, TLC

VARIABLES
    HAS_JOBLIB,     \* module flag: joblib importable
    HAS_PICKLE5,    \* module flag: pickle5 importable
    HAS_DILL,       \* module flag: dill importable
    model,          \* ModelController.model
    adapter,        \* ModelController.adapter
    feature_names,  \* ModelController.feature_names
    loader,         \* record of the most recent ModelLoaderContext.load_model call
    last,           \* record of the most recent ModelController call
    everLoaded,     \* some ModelController.load_model call has returned normally
    firstFailure,   \* the first aggregated failure: its files, its strategy names in
                    \* order, and whether the same files have failed again since
    held,           \* the list object the controller's caller got from its last read
    ad,             \* a ModelAdapter built on its own; ad.model is its handle as it is now
    adProba,        \* the handle had predict_proba when ad was constructed
    adOut,          \* record of the most recent call on ad
    custom,         \* record of the most recent CustomUnpicklerStrategy.load call
    _instance,      \* ModelController._instance, with its _initialized attribute
    allocated,      \* number of ModelController objects created so far
    undo_stack,     \* CommandManager.undo_stack
    redo_stack,     \* CommandManager.redo_stack
    current_instance, \* the list the commands edit
    cmdOut,         \* record of the most recent CommandManager call
    _observers,     \* ModelSubject._observers
    subjOut,        \* record of the most recent ModelSubject call
    current_explainer, \* ExplainableAICLI.current_explainer
    cliOut          \* record of the most recent menu option of the CLI

callerVars == <<held>>
adapterVars == <<ad, adProba, adOut>>
customVars == <<custom>>
singletonVars == <<_instance, allocated>>
commandVars == <<undo_stack, redo_stack, current_instance, cmdOut>>
subjectVars == <<_observers, subjOut>>
cliVars == <<current_explainer, cliOut>>

vars == <<HAS_JOBLIB, HAS_PICKLE5, HAS_DILL, model, adapter, feature_names,
          loader, last, everLoaded, firstFailure, held, ad, adProba, adOut, custom,
          _instance, allocated, undo_stack, redo_stack, current_instance, cmdOut,
          _observers, subjOut, current_explainer, cliOut>>

-----------------------------------------------------------------------------
\* Bounds of the model.

\* Length of the long underlying error text (longer than the 50-character cut).
LongErrLen == 53
\* Length of the short underlying error text.
ShortErrLen == 3
\* Width of the instances handed to predict.
InstLen == 2
\* Number of times the caller changes a list it got from the controller.
MaxPops == 1
\* Number of commands on the undo stack.
MaxStack == 2
\* Number of observers attached from outside a notification.
MaxObservers == 3

\* Program constants.
MsgLimit == 50
DefaultWidth == 10

-----------------------------------------------------------------------------
\* Python values. Every object is a record with a cls field, so that any two
\* objects can be compared.

None == [cls |-> "NoneType"]
PyList(s) == [cls |-> "list", items |-> s]
PyInt(n) == [cls |-> "int", val |-> n]
Method(w) == [cls |-> "method", w |-> w]

hasattr(obj, name) == name \in DOMAIN obj

\* setattr(obj, name, v) and delattr(obj, name)
setattr(obj, name, v) == [n \in DOMAIN obj \cup {name} |-> IF n = name THEN v ELSE obj[n]]
delattr(obj, name) == [n \in DOMAIN obj \ {name} |-> obj[n]]

\* A text is a run-length encoded string: a sequence of runs, each n characters
\* of one message. The text of an exception (what str(e) gives) is one run of
\* its n characters; a string literal of the program is one run of one atom.
Run(tag, n) == [s |-> tag, n |-> n]
Text(tag, n) == IF n = 0 THEN <<>> ELSE <<Run(tag, n)>>
Lit(string) == <<Run(string, 1)>>

\* Faulty variant: nothing is cut off.
SliceWhole(s, n) == s

\* s[:n]
RECURSIVE Slice(_, _)
Slice(s, n) ==
    IF n <= 0 \/ Len(s) = 0 THEN <<>>
    ELSE IF Head(s).n <= n THEN <<Head(s)>> \o Slice(Tail(s), n - Head(s).n)
    ELSE <<Run(Head(s).s, n)>>

\* Objects an artifact can decode to.
TreeA ==
    [cls |-> "DecisionTreeClassifier",
     feature_names_in_ |-> PyList(<<"age", "income">>),
     n_features_in_ |-> PyInt(2),
     predict |-> Method(0),
     predict_proba |-> Method(0)]
RuleB ==
    [cls |-> "RuleBasedModel",
     feature_names |-> PyList(<<"x", "y", "z">>),
     predict |-> Method(1)]
BrokenX ==
    [cls |-> "LegacyEstimator",
     feature_names_in_ |-> None,
     predict |-> Method(1)]
JsonDict == [cls |-> "dict"]

PickledObjects == {TreeA, RuleB, BrokenX}

-----------------------------------------------------------------------------
\* Loader strategies.

StandardPickleStrategy(encoding) == [cls |-> "StandardPickleStrategy", encoding |-> encoding]
Pickle5Strategy(encoding) == [cls |-> "Pickle5Strategy", encoding |-> encoding]
DillStrategy == [cls |-> "DillStrategy", encoding |-> "-"]
JoblibMemoryStrategy == [cls |-> "JoblibMemoryStrategy", encoding |-> "-"]
JoblibFileStrategy == [cls |-> "JoblibFileStrategy", encoding |-> "-"]
CustomUnpicklerStrategy == [cls |-> "CustomUnpicklerStrategy", encoding |-> "-"]

\* Faulty variant: the display name leaves the encoding out.
get_name_noencoding(strategy) ==
    CASE strategy.cls = "StandardPickleStrategy" -> "Standard pickle"
      [] strategy.cls = "Pickle5Strategy" -> "pickle5"
      [] strategy.cls = "DillStrategy" -> "dill"
      [] strategy.cls = "JoblibMemoryStrategy" -> "joblib (memory)"
      [] strategy.cls = "JoblibFileStrategy" -> "joblib (file)"
      [] strategy.cls = "CustomUnpicklerStrategy" -> "Custom unpickler"

\* f"Standard pickle ({self.encoding})" and the other display names.
get_name(strategy) ==
    CASE strategy.cls = "StandardPickleStrategy" ->
            (CASE strategy.encoding = "latin1" -> "Standard pickle (latin1)"
               [] strategy.encoding = "bytes" -> "Standard pickle (bytes)"
               [] strategy.encoding = "ASCII" -> "Standard pickle (ASCII)")
      [] strategy.cls = "Pickle5Strategy" ->
            (CASE strategy.encoding = "latin1" -> "pickle5 (latin1)"
               [] strategy.encoding = "bytes" -> "pickle5 (bytes)"
               [] strategy.encoding = "ASCII" -> "pickle5 (ASCII)")
      [] strategy.cls = "DillStrategy" -> "dill"
      [] strategy.cls = "JoblibMemoryStrategy" -> "joblib (memory)"
      [] strategy.cls = "JoblibFileStrategy" -> "joblib (file)"
      [] strategy.cls = "CustomUnpicklerStrategy" -> "Custom unpickler"

\* The decoders an artifact's bytes may or may not parse under.
CustomEncodings == <<"latin1", "bytes", "ASCII", "None">>
CustomKey(encoding) ==
    CASE encoding = "latin1" -> "custom:latin1"
      [] encoding = "bytes" -> "custom:bytes"
      [] encoding = "ASCII" -> "custom:ASCII"
      [] encoding = "None" -> "custom:None"
PickleKey(encoding) ==
    CASE encoding = "latin1" -> "pickle:latin1"
      [] encoding = "bytes" -> "pickle:bytes"
      [] encoding = "ASCII" -> "pickle:ASCII"
Pickle5Key(encoding) ==
    CASE encoding = "latin1" -> "pickle5:latin1"
      [] encoding = "bytes" -> "pickle5:bytes"
      [] encoding = "ASCII" -> "pickle5:ASCII"
DecoderKeys ==
    {"joblib", "pickle:latin1", "pickle:bytes", "pickle:ASCII", "pickle5:latin1",
     "dill", "custom:latin1", "custom:bytes", "custom:ASCII", "custom:None"}

\* Outcome of a call: a returned value or a raised exception.
Return(v) == [ok |-> TRUE, val |-> v, exc |-> "-", text |-> <<>>]
Raise(exc, text) == [ok |-> FALSE, val |-> None, exc |-> exc, text |-> text]

\* A file on disk: unreadable, or bytes that parse under the decoders in dec to
\* the object obj and make every other decoder raise an error of text err.
Unreadable == [readable |-> FALSE, dec |-> {}, obj |-> None, err |-> <<>>]
Bytes(dec, obj, err) == [readable |-> TRUE, dec |-> dec, obj |-> obj, err |-> err]

\* <codec>.loads(bytes) for the decoder `key`.
Decode(key, content) ==
    IF key \in content.dec THEN Return(content.obj)
    ELSE Raise("UnpicklingError", content.err)

\* The encoding an unpickler reads with after `unpickler.encoding = encoding`.
\* CompatibilityUnpickler(io.BytesIO(file_content)) is a pickle.Unpickler, the
\* unpickler of the C accelerator, built with the default encoding; load()
\* reads the encoding the constructor kept, and the attribute set afterwards
\* on the instance is not looked at.
EffectiveEncoding(encoding) == "None"

\* CustomUnpicklerStrategy.load from the i-th encoding of the list on; tried
\* lists the encodings the loop has gone through.
RECURSIVE CustomUnpicklerStrategy_load(_, _)
CustomUnpicklerStrategy_load(i, file_content) ==
    IF i > Len(CustomEncodings)
    THEN Raise("ValueError", Text("Custom unpickler failed with all encodings", 42))
         @@ [tried |-> <<>>]
    ELSE LET r == Decode(CustomKey(EffectiveEncoding(CustomEncodings[i])), file_content)
         IN  IF r.ok THEN r @@ [tried |-> <<CustomEncodings[i]>>]
             ELSE [CustomUnpicklerStrategy_load(i + 1, file_content)
                      EXCEPT !.tried = <<CustomEncodings[i]>> \o @]

\* StandardPickleStrategy.load, Pickle5Strategy.load, DillStrategy.load,
\* JoblibMemoryStrategy.load, JoblibFileStrategy.load. file_path stands for
\* the file joblib finds at the path when it opens it again.
\* Faulty variant: joblib (memory) opens the path again too.
load_memoryrereads(strategy, file_path, file_content) ==
    CASE strategy.cls = "StandardPickleStrategy" ->
            Decode(PickleKey(strategy.encoding), file_content)
      [] strategy.cls = "Pickle5Strategy" ->
            IF ~HAS_PICKLE5 THEN Raise("ImportError", Text("pickle5 not installed", 21))
            ELSE Decode(Pickle5Key(strategy.encoding), file_content)
      [] strategy.cls = "DillStrategy" ->
            IF ~HAS_DILL THEN Raise("ImportError", Text("dill not installed", 18))
            ELSE Decode("dill", file_content)
      [] strategy.cls \in {"JoblibMemoryStrategy", "JoblibFileStrategy"} ->
            IF ~HAS_JOBLIB THEN Raise("ImportError", Text("joblib not installed", 20))
            ELSE IF ~file_path.readable
                 THEN Raise("OSError", Text("No such file or directory", 25))
                 ELSE Decode("joblib", file_path)
      [] strategy.cls = "CustomUnpicklerStrategy" ->
            CustomUnpicklerStrategy_load(1, file_content)

load(strategy, file_path, file_content) ==
    CASE strategy.cls = "StandardPickleStrategy" ->
            Decode(PickleKey(strategy.encoding), file_content)
      [] strategy.cls = "Pickle5Strategy" ->
            IF ~HAS_PICKLE5 THEN Raise("ImportError", Text("pickle5 not installed", 21))
            ELSE Decode(Pickle5Key(strategy.encoding), file_content)
      [] strategy.cls = "DillStrategy" ->
            IF ~HAS_DILL THEN Raise("ImportError", Text("dill not installed", 18))
            ELSE Decode("dill", file_content)
      [] strategy.cls = "JoblibMemoryStrategy" ->
            IF ~HAS_JOBLIB THEN Raise("ImportError", Text("joblib not installed", 20))
            ELSE Decode("joblib", file_content)
      [] strategy.cls = "JoblibFileStrategy" ->
            IF ~HAS_JOBLIB THEN Raise("ImportError", Text("joblib not installed", 20))
            ELSE IF ~file_path.readable
                 THEN Raise("OSError", Text("No such file or directory", 25))
                 ELSE Decode("joblib", file_path)
      [] strategy.cls = "CustomUnpicklerStrategy" ->
            CustomUnpicklerStrategy_load(1, file_content)

\* Faulty variant: the optional dill strategy is registered whether or not dill is there.
_initialize_strategies_placeholders ==
    (IF HAS_JOBLIB THEN <<JoblibMemoryStrategy, JoblibFileStrategy>> ELSE <<>>)
    \o <<StandardPickleStrategy("latin1"), StandardPickleStrategy("bytes"),
         StandardPickleStrategy("ASCII")>>
    \o (IF HAS_PICKLE5 THEN <<Pickle5Strategy("latin1"), Pickle5Strategy("latin1")>> ELSE <<>>)
    \o <<DillStrategy, CustomUnpicklerStrategy>>

\* Faulty variant: the strategy that won the previous call is tried first.
_initialize_strategies_cached ==
    LET fixed == (IF HAS_JOBLIB THEN <<JoblibMemoryStrategy, JoblibFileStrategy>> ELSE <<>>)
                 \o <<StandardPickleStrategy("latin1"), StandardPickleStrategy("bytes"),
                      StandardPickleStrategy("ASCII")>>
                 \o (IF HAS_PICKLE5
                     THEN <<Pickle5Strategy("latin1"), Pickle5Strategy("latin1")>> ELSE <<>>)
                 \o (IF HAS_DILL THEN <<DillStrategy>> ELSE <<>>)
                 \o <<CustomUnpicklerStrategy>>
    IN  IF loader.called /\ loader.res.ok
        THEN <<loader.strategies[loader.attempts[Len(loader.attempts)]]>> \o fixed
        ELSE fixed

\* ModelLoaderContext._initialize_strategies
_initialize_strategies ==
    LET s0 == <<>>
        s1 == IF HAS_JOBLIB
              THEN Append(Append(s0, JoblibMemoryStrategy), JoblibFileStrategy)
              ELSE s0
        s2 == s1 \o <<StandardPickleStrategy("latin1"),
                      StandardPickleStrategy("bytes"),
                      StandardPickleStrategy("ASCII")>>
        s3 == IF HAS_PICKLE5
              THEN Append(Append(s2, Pickle5Strategy("latin1")), Pickle5Strategy("latin1"))
              ELSE s2
        s4 == IF HAS_DILL THEN Append(s3, DillStrategy) ELSE s3
    IN  Append(s4, CustomUnpicklerStrategy)

AllFailedHeader == "Failed to load model with all strategies:\n"
Suggestion == "\n\nSuggestion: Try regenerating the model with: python models/create_sample_models.py"

\* "\n".join(errors)
RECURSIVE JoinLines(_)
JoinLines(errors) ==
    IF Len(errors) = 0 THEN <<>>
    ELSE IF Len(errors) = 1 THEN errors[1]
    ELSE errors[1] \o Lit("\n") \o JoinLines(Tail(errors))

\* The loop of ModelLoaderContext.load_model over self.strategies, from
\* position i on; attempts lists the registry positions whose load was called.
\* Attempted is the loop's body once strategy.load has given r.
RECURSIVE TryStrategies(_, _, _, _, _, _)
RECURSIVE Attempted(_, _, _, _, _, _, _)

\* Faulty variant: a successful load does not leave the loop unless it is the last one.
AttemptedNoShortCircuit(strategies, i, file_path, file_content, attempts, errors, r) ==
    IF r.ok /\ i = Len(strategies)
    THEN [res |-> Return(r.val),
          attempts |-> Append(attempts, i),
          stdout |-> Lit("Successfully loaded model using: ") \o Lit(get_name(strategies[i]))]
    ELSE TryStrategies(strategies, i + 1, file_path, file_content,
                       Append(attempts, i),
                       IF r.ok THEN errors
                       ELSE Append(errors, Lit(get_name(strategies[i])) \o Lit(": ")
                                               \o Slice(r.text, MsgLimit)))

\* Faulty variant: the newest error is put in front of the list.
AttemptedNewestFirst(strategies, i, file_path, file_content, attempts, errors, r) ==
    IF r.ok
    THEN [res |-> Return(r.val),
          attempts |-> Append(attempts, i),
          stdout |-> Lit("Successfully loaded model using: ") \o Lit(get_name(strategies[i]))]
    ELSE TryStrategies(strategies, i + 1, file_path, file_content,
                       Append(attempts, i),
                       <<Lit(get_name(strategies[i])) \o Lit(": ") \o Slice(r.text, MsgLimit)>>
                       \o errors)

Attempted(strategies, i, file_path, file_content, attempts, errors, r) ==
    IF r.ok
    THEN [res |-> Return(r.val),
          attempts |-> Append(attempts, i),
          stdout |-> Lit("Successfully loaded model using: ") \o Lit(get_name(strategies[i]))]
    ELSE TryStrategies(strategies, i + 1, file_path, file_content,
                       Append(attempts, i),
                       Append(errors, Lit(get_name(strategies[i])) \o Lit(": ")
                                          \o Slice(r.text, MsgLimit)))

TryStrategies(strategies, i, file_path, file_content, attempts, errors) ==
    IF i > Len(strategies)
    THEN [res |-> Raise("ValueError", Lit(AllFailedHeader) \o JoinLines(errors) \o Lit(Suggestion)),
          attempts |-> attempts,
          stdout |-> <<>>]
    ELSE Attempted(strategies, i, file_path, file_content, attempts, errors,
                   load(strategies[i], file_path, file_content))

\* Faulty variant: a file that cannot be opened is read as no bytes.
ModelLoaderContext_load_model_noopen(strategies, file, reread) ==
    TryStrategies(strategies, 1, reread, file, <<>>, <<>>)

\* ModelLoaderContext.load_model: file is what open(file_path, 'rb') finds,
\* reread what a later joblib.load(file_path) finds.
ModelLoaderContext_load_model(strategies, file, reread) ==
    IF ~file.readable
    THEN [res |-> Raise("OSError", Text("No such file or directory", 25)),
          attempts |-> <<>>,
          stdout |-> <<>>]
    ELSE TryStrategies(strategies, 1, reread, file, <<>>, <<>>)

-----------------------------------------------------------------------------
\* ModelAdapter.

ModelAdapter(m, names) == [cls |-> "ModelAdapter", model |-> m, _feature_names |-> names]

\* f"Feature_{i}" for i in 0 .. 11
PlaceholderNames ==
    <<"Feature_0", "Feature_1", "Feature_2", "Feature_3", "Feature_4", "Feature_5",
      "Feature_6", "Feature_7", "Feature_8", "Feature_9", "Feature_10", "Feature_11">>

\* Faulty variant: the placeholders are numbered from 1.
Placeholders_from1(n) == [i \in 1..n |-> PlaceholderNames[i + 1]]

\* [f"Feature_{i}" for i in range(n)]
Placeholders(n) == [i \in 1..n |-> PlaceholderNames[i]]

\* list(v)
list(v) ==
    IF v.cls = "list" THEN Return(PyList(v.items))
    ELSE Raise("TypeError", Text("object is not iterable", 22))

\* Faulty variant: the handle's feature_names is looked at before its feature_names_in_,
\* and explicit names only when the handle embeds none.
get_feature_names_legacyfirst(self) ==
    IF hasattr(self.model, "feature_names")
    THEN list(self.model.feature_names)
    ELSE IF hasattr(self.model, "feature_names_in_")
    THEN list(self.model.feature_names_in_)
    ELSE IF self._feature_names.cls = "list" /\ Len(self._feature_names.items) > 0
    THEN Return(self._feature_names)
    ELSE IF hasattr(self.model, "n_features_in_")
    THEN IF self.model.n_features_in_.cls = "int"
         THEN Return(PyList(Placeholders(self.model.n_features_in_.val)))
         ELSE Raise("TypeError", Text("object cannot be interpreted as an integer", 42))
    ELSE Return(PyList(Placeholders(DefaultWidth)))

\* ModelAdapter.get_feature_names
get_feature_names(self) ==
    IF self._feature_names.cls = "list" /\ Len(self._feature_names.items) > 0
    THEN Return(self._feature_names)
    ELSE IF hasattr(self.model, "feature_names_in_")
    THEN list(self.model.feature_names_in_)
    ELSE IF hasattr(self.model, "feature_names")
    THEN list(self.model.feature_names)
    ELSE IF hasattr(self.model, "n_features_in_")
    THEN IF self.model.n_features_in_.cls = "int"
         THEN Return(PyList(Placeholders(self.model.n_features_in_.val)))
         ELSE Raise("TypeError", Text("object cannot be interpreted as an integer", 42))
    ELSE Return(PyList(Placeholders(DefaultWidth)))

RECURSIVE Sum(_)
Sum(row) == IF Len(row) = 0 THEN 0 ELSE Head(row) + Sum(Tail(row))

\* The handle's own predict and predict_proba on a batch of rows.
NativePredict(m, batch) == [i \in 1..Len(batch) |-> (m.predict.w + Sum(batch[i])) % 2]
NativeProba(m, batch) ==
    [i \in 1..Len(batch) |-> <<(m.predict_proba.w + Sum(batch[i])) % 2,
                                1 - ((m.predict_proba.w + Sum(batch[i])) % 2)>>]

PredictionTuple(label, probabilities) ==
    [cls |-> "tuple", label |-> label, probabilities |-> probabilities]

\* Faulty variant: the flat vector is handed to the handle as it is, each value a row.
ModelAdapter_predict_noreshape(self, instance) ==
    LET batch == [i \in 1..Len(instance) |-> <<instance[i]>>]
    IN  IF ~hasattr(self.model, "predict")
        THEN Raise("AttributeError", Text("object has no attribute 'predict'", 33))
        ELSE LET prediction == NativePredict(self.model, batch)
                 probabilities == IF hasattr(self.model, "predict_proba")
                                  THEN PyList(NativeProba(self.model, batch))
                                  ELSE None
             IN  Return(PredictionTuple(
                        PyInt(prediction[1]),
                        IF probabilities # None THEN PyList(probabilities.items[1]) ELSE None))

\* Faulty variant: a handle without predict gives the label 0 and no probabilities.
ModelAdapter_predict_masked(self, instance) ==
    LET batch == <<instance>>
    IN  IF ~hasattr(self.model, "predict")
        THEN Return(PredictionTuple(PyInt(0), None))
        ELSE LET prediction == NativePredict(self.model, batch)
                 probabilities == IF hasattr(self.model, "predict_proba")
                                  THEN PyList(NativeProba(self.model, batch))
                                  ELSE None
             IN  Return(PredictionTuple(
                        PyInt(prediction[1]),
                        IF probabilities # None THEN PyList(probabilities.items[1]) ELSE None))

\* ModelAdapter.predict on a flat list
ModelAdapter_predict(self, instance) ==
    LET batch == <<instance>>
    IN  IF ~hasattr(self.model, "predict")
        THEN Raise("AttributeError", Text("object has no attribute 'predict'", 33))
        ELSE LET prediction == NativePredict(self.model, batch)
                 probabilities == IF hasattr(self.model, "predict_proba")
                                  THEN PyList(NativeProba(self.model, batch))
                                  ELSE None
             IN  Return(PredictionTuple(
                        PyInt(prediction[1]),
                        IF probabilities # None THEN PyList(probabilities.items[1]) ELSE None))

-----------------------------------------------------------------------------
\* ModelController.

\* A path is <<stem, extension>>.
endswith(path, suffix) == path[Len(path)] = suffix

\* json.load(f)
json_load(file) ==
    IF "json" \in file.dec THEN Return(file.obj)
    ELSE Raise("JSONDecodeError", file.err)

NotCalled == [called |-> FALSE, strategies |-> <<>>, file |-> Unreadable, reread |-> Unreadable,
              attempts |-> <<>>, res |-> Return(None), returned |-> <<>>, stdout |-> <<>>]

\* What a ModelLoaderContext call leaves to observe: the registry it built,
\* the files it found, the loads it called, what it returned or raised (the
\* return statement gives one value), and what it printed.
ContextRecord(strategies, file, reread, c) ==
    [called |-> TRUE, strategies |-> strategies, file |-> file, reread |-> reread,
     attempts |-> c.attempts, res |-> c.res,
     returned |-> IF c.res.ok THEN <<c.res.val>> ELSE <<>>,
     stdout |-> c.stdout]

\* loader_context = ModelLoaderContext(); loader_context.load_model(path)
LoaderCall(file, reread) ==
    ContextRecord(_initialize_strategies, file, reread,
                  ModelLoaderContext_load_model(_initialize_strategies, file, reread))

\* ModelController.__new__: the object a construction gives, and the number of
\* objects created once it has run.
ModelController___new__ ==
    IF _instance = None
    THEN [obj |-> [cls |-> "ModelController", serial |-> allocated + 1, _initialized |-> FALSE],
          allocated |-> allocated + 1]
    ELSE [obj |-> _instance, allocated |-> allocated]

\* Faulty variant: every construction sets the fields anew.
ModelController___init___noguard(self) ==
    [model |-> None, adapter |-> None, feature_names |-> PyList(<<>>),
     self |-> [self EXCEPT !._initialized = TRUE]]

\* ModelController.__init__ on the object __new__ gave
ModelController___init__(self) ==
    IF self._initialized
    THEN [model |-> model, adapter |-> adapter, feature_names |-> feature_names, self |-> self]
    ELSE [model |-> None, adapter |-> None, feature_names |-> PyList(<<>>),
          self |-> [self EXCEPT !._initialized = TRUE]]

\* What ModelController() returns.
Constructed(self) ==
    [op |-> "ModelController", ok |-> TRUE,
     val |-> [cls |-> "ModelController", serial |-> self.serial],
     exc |-> "-", text |-> <<>>, cause |-> "-", stage |-> "-", delegated |-> FALSE]

\* The first stage of ModelController.load_model: the handle, by extension.
LoadStage(path, file, reread) ==
    IF endswith(path, ".pkl") \/ endswith(path, ".pickle")
    THEN [res |-> ModelLoaderContext_load_model(_initialize_strategies, file, reread).res,
          stage |-> "loader"]
    ELSE IF endswith(path, ".json")
    THEN [res |-> IF ~file.readable
                  THEN Raise("OSError", Text("No such file or directory", 25))
                  ELSE json_load(file),
          stage |-> "json"]
    ELSE [res |-> Raise("ValueError",
                        Lit("Unsupported file format: ") \o Lit(path[1]) \o Lit(path[2])),
          stage |-> "format"]

\* raise Exception(f"Failed to load model: {str(e)}")
Wrapped(r, stage) ==
    [op |-> "load_model", ok |-> FALSE, val |-> None, exc |-> "Exception",
     text |-> Lit("Failed to load model: ") \o r.text,
     cause |-> r.exc, stage |-> stage, delegated |-> FALSE]

Returned(v) ==
    [op |-> "load_model", ok |-> TRUE, val |-> v, exc |-> "-", text |-> <<>>,
     cause |-> "-", stage |-> "-", delegated |-> FALSE]

\* self.feature_names = self.adapter.get_feature_names(); return self.feature_names
\* with fn what get_feature_names gave, after self.model and self.adapter are set.
SchemaStage(m, a, fn) ==
    IF ~fn.ok
    THEN [model |-> m, adapter |-> a, feature_names |-> feature_names,
          out |-> Wrapped(fn, "schema")]
    ELSE [model |-> m, adapter |-> a, feature_names |-> fn.val, out |-> Returned(fn.val)]

\* self.adapter = ModelAdapter(self.model) and on, after self.model = m.
AdapterStage(m) == SchemaStage(m, ModelAdapter(m, None), get_feature_names(ModelAdapter(m, None)))

\* Faulty variant: a failed first stage clears the controller.
AfterLoadStageReset(st) ==
    IF ~st.res.ok
    THEN [model |-> None, adapter |-> None, feature_names |-> PyList(<<>>),
          out |-> Wrapped(st.res, st.stage)]
    ELSE AdapterStage(st.res.val)

\* The body of ModelController.load_model once the first stage has given st.
AfterLoadStage(st) ==
    IF ~st.res.ok
    THEN [model |-> model, adapter |-> adapter, feature_names |-> feature_names,
          out |-> Wrapped(st.res, st.stage)]
    ELSE AdapterStage(st.res.val)

\* ModelController.load_model: the controller's fields and the call's outcome.
ModelController_load_model(path, file, reread) ==
    AfterLoadStage(LoadStage(path, file, reread))

\* return self.adapter.predict(instance)
Delegated(r) ==
    [op |-> "predict", ok |-> r.ok, val |-> r.val, exc |-> r.exc, text |-> r.text,
     cause |-> "-", stage |-> "-", delegated |-> TRUE]

\* ModelController.predict
ModelController_predict(instance) ==
    IF adapter = None
    THEN [op |-> "predict", ok |-> FALSE, val |-> None, exc |-> "Exception",
          text |-> Lit("No model loaded. Please load a model first."),
          cause |-> "-", stage |-> "-", delegated |-> FALSE]
    ELSE Delegated(ModelAdapter_predict(adapter, instance))

\* ModelController.is_model_loaded
is_model_loaded == model # None

\* What the caller holds after a read. load_model returns self.feature_names,
\* the list object the controller keeps (same); get_adapter().get_feature_names()
\* builds a list of its own on every call, the controller's adapter having no
\* explicit names.
\* popped counts the caller's pop() calls on the list since it got it.
Holding(obj, same) == [obj |-> obj, same |-> same, popped |-> 0]
HeldAfter_load_model(out) == IF out.ok THEN Holding(out.val, TRUE) ELSE held
HeldAfter_get_feature_names(r) == IF r.ok THEN Holding(r.val, FALSE) ELSE held

\* lst.pop() on a list object
pop(lst) == PyList(SubSeq(lst.items, 1, Len(lst.items) - 1))

\* The outcome of a call on the adapter ad, with the instance it was given.
AdapterOut(op, r, instance) ==
    [op |-> op, ok |-> r.ok, val |-> r.val, exc |-> r.exc, text |-> r.text,
     instance |-> instance]

NoCustomCall == [called |-> FALSE, file |-> Unreadable, res |-> Return(None), tried |-> <<>>]

\* CustomUnpicklerStrategy().load(file_path, file_content): what the call
\* gives and the encodings its loop went through.
CustomCall(file) ==
    [called |-> TRUE, file |-> file,
     res |-> [k \in {"ok", "val", "exc", "text"} |-> CustomUnpicklerStrategy_load(1, file)[k]],
     tried |-> CustomUnpicklerStrategy_load(1, file).tried]

-----------------------------------------------------------------------------
\* SliderChangeCommand and CommandManager.

\* SliderChangeCommand(instance, feature_index, old_val, new_val, callback);
\* every command edits the one list `instance`. printable tells whether
\* old_val and new_val are numbers the command's __str__ can format.
SliderChangeCommand(feature_index, old_val, new_val, callback, printable) ==
    [cls |-> "SliderChangeCommand", feature_index |-> feature_index,
     old_val |-> old_val, new_val |-> new_val, callback |-> callback, printable |-> printable]

Callback == [cls |-> "function"]

\* self.instance[self.feature_index] = val; if self.callback: self.callback()
\* on the list inst, the callback raising or not.
SetValue(self, inst, val, cbRaises) ==
    IF self.feature_index + 1 \notin 1..Len(inst)
    THEN [instance |-> inst,
          res |-> Raise("IndexError", Text("list assignment index out of range", 34))]
    ELSE [instance |-> [inst EXCEPT ![self.feature_index + 1] = val],
          res |-> IF self.callback # None /\ cbRaises
                  THEN Raise("Exception", Text("callback failed", 15))
                  ELSE Return(None)]

\* SliderChangeCommand.execute and SliderChangeCommand.undo
SliderChangeCommand_execute(self, inst, cbRaises) == SetValue(self, inst, self.new_val, cbRaises)
SliderChangeCommand_undo(self, inst, cbRaises) == SetValue(self, inst, self.old_val, cbRaises)

\* What a CommandManager call leaves: the stacks, the list, the value
\* returned, whether the command's own method raised, and the line printed.
ManagerOut(op, cmd, us, rs, inst, returned, raised, stdout) ==
    [op |-> op, cmd |-> cmd, undo_stack |-> us, redo_stack |-> rs, instance |-> inst,
     returned |-> returned, raised |-> raised, stdout |-> stdout]

NoCommand == [cls |-> "NoneType", printable |-> TRUE]
NoCommandCall ==
    [op |-> "-", cmd |-> NoCommand, returned |-> None, raised |-> FALSE, stdout |-> "-"]

\* Faulty variant: the redo stack is emptied before the command has run.
CommandManager_execute_clearsfirst(cmd, us, rs, inst, cbRaises) ==
    LET e == SliderChangeCommand_execute(cmd, inst, cbRaises)
    IN  IF ~e.res.ok
        THEN ManagerOut("execute", cmd, us, <<>>, e.instance, None, TRUE,
                        "Error executing command")
        ELSE ManagerOut("execute", cmd, Append(us, cmd), <<>>, e.instance, None, FALSE,
                        IF cmd.printable THEN "Command executed" ELSE "Error executing command")

\* CommandManager.execute
CommandManager_execute(cmd, us, rs, inst, cbRaises) ==
    LET e == SliderChangeCommand_execute(cmd, inst, cbRaises)
    IN  IF ~e.res.ok
        THEN ManagerOut("execute", cmd, us, rs, e.instance, None, TRUE,
                        "Error executing command")
        ELSE ManagerOut("execute", cmd, Append(us, cmd), <<>>, e.instance, None, FALSE,
                        IF cmd.printable THEN "Command executed" ELSE "Error executing command")

\* lst[:-1], what lst.pop() leaves
Front(lst) == SubSeq(lst, 1, Len(lst) - 1)

\* CommandManager.undo
CommandManager_undo(us, rs, inst, cbRaises) ==
    IF Len(us) = 0
    THEN ManagerOut("undo", NoCommand, us, rs, inst, FALSE, FALSE, "Nothing to undo")
    ELSE LET cmd == us[Len(us)]
             u == SliderChangeCommand_undo(cmd, inst, cbRaises)
         IN  IF ~u.res.ok
             THEN ManagerOut("undo", cmd, Front(us), rs, u.instance, FALSE, TRUE,
                             "Error undoing command")
             ELSE ManagerOut("undo", cmd, Front(us), Append(rs, cmd), u.instance,
                             cmd.printable, FALSE,
                             IF cmd.printable THEN "Command undone" ELSE "Error undoing command")

\* CommandManager.redo
CommandManager_redo(us, rs, inst, cbRaises) ==
    IF Len(rs) = 0
    THEN ManagerOut("redo", NoCommand, us, rs, inst, FALSE, FALSE, "Nothing to redo")
    ELSE LET cmd == rs[Len(rs)]
             e == SliderChangeCommand_execute(cmd, inst, cbRaises)
         IN  IF ~e.res.ok
             THEN ManagerOut("redo", cmd, us, Front(rs), e.instance, FALSE, TRUE,
                             "Error redoing command")
             ELSE ManagerOut("redo", cmd, Append(us, cmd), Front(rs), e.instance,
                             cmd.printable, FALSE,
                             IF cmd.printable THEN "Command redone" ELSE "Error redoing command")

-----------------------------------------------------------------------------
\* ModelSubject and its observers.

\* An Observer whose update(data) does what onUpdate says: nothing, raise,
\* detach itself, detach the observer named target, or attach it.
Observer(name, onUpdate, target) ==
    [cls |-> "Observer", name |-> name, onUpdate |-> onUpdate, target |-> target]

Contains(lst, o) == \E i \in 1..Len(lst) : lst[i] = o

\* lst.remove(o): lst without the first element equal to o
Remove(lst, o) ==
    LET at == CHOOSE i \in 1..Len(lst) : lst[i] = o /\ \A j \in 1..(i - 1) : lst[j] # o
    IN  SubSeq(lst, 1, at - 1) \o SubSeq(lst, at + 1, Len(lst))

\* ModelSubject.attach
ModelSubject_attach(observers, observer) ==
    IF ~Contains(observers, observer) THEN Append(observers, observer) ELSE observers

\* ModelSubject.detach
ModelSubject_detach(observers, observer) ==
    IF Contains(observers, observer) THEN Remove(observers, observer) ELSE observers

\* observer.update(data), called while the subject holds the list observers;
\* known are the observers an update may name.
Observer_update(self, observers, known) ==
    LET other == CHOOSE o \in known : o.name = self.target
    IN  CASE self.onUpdate = "raise" ->
               [observers |-> observers, res |-> Raise("Exception", Text("update failed", 13))]
          [] self.onUpdate = "detach_self" ->
               [observers |-> ModelSubject_detach(observers, self), res |-> Return(None)]
          [] self.onUpdate = "detach" ->
               [observers |-> ModelSubject_detach(observers, other), res |-> Return(None)]
          [] self.onUpdate = "attach" ->
               [observers |-> ModelSubject_attach(observers, other), res |-> Return(None)]
          [] OTHER -> [observers |-> observers, res |-> Return(None)]

\* The loop of notify from position i on: `for observer in self._observers`
\* reads the list itself at each step, so it sees what the updates did to it.
\* received is the sequence of observers whose update was called, errors the
\* number of "Error notifying observer" lines printed.
RECURSIVE NotifyFrom(_, _, _, _, _)
NotifyFrom(observers, i, received, errors, known) ==
    IF i > Len(observers)
    THEN [observers |-> observers, received |-> received, errors |-> errors]
    ELSE LET u == Observer_update(observers[i], observers, known)
         IN  NotifyFrom(u.observers, i + 1, Append(received, observers[i]),
                        IF u.res.ok THEN errors ELSE errors + 1, known)

\* ModelSubject.notify
ModelSubject_notify(observers, known) == NotifyFrom(observers, 1, <<>>, 0, known)

NoObserver == [cls |-> "NoneType", name |-> "-"]
NoSubjectCall ==
    [op |-> "-", arg |-> NoObserver, atStart |-> <<>>, received |-> <<>>, errors |-> 0]

-----------------------------------------------------------------------------
\* ExplainerFactory and ExplainableAICLI.

\* SHAPExplainer(model, ...), LIMEExplainer(model, ...), DecisionPathExplainer(model, ...):
\* each keeps the object it is given as self.model.
Explainer(cls, m, names) == [cls |-> cls, model |-> m, feature_names |-> names]

\* The class names with 'DecisionTree', 'RandomForest', 'ExtraTree' or
\* 'GradientBoosting' in them.
TreeClasses == {"DecisionTreeClassifier"}

\* ExplainerFactory.create(model, None, feature_names, explainer_type) on a
\* host where shap and lime are installed or not.
ExplainerFactory_create(m, names, explainer_type, has_shap, has_lime) ==
    IF explainer_type = "shap" THEN Explainer("SHAPExplainer", m, names)
    ELSE IF explainer_type = "lime" THEN Explainer("LIMEExplainer", m, names)
    ELSE IF explainer_type = "decision_path" THEN Explainer("DecisionPathExplainer", m, names)
    ELSE IF m.cls \in TreeClasses THEN Explainer("DecisionPathExplainer", m, names)
    ELSE IF has_shap THEN Explainer("SHAPExplainer", m, names)
    ELSE IF has_lime THEN Explainer("LIMEExplainer", m, names)
    ELSE Explainer("DecisionPathExplainer", m, names)

\* What a menu option leaves: the fields of the controller and of the CLI,
\* the controller call it made last (call), the message shown last (msg), the
\* local old_instance of enter_instance, and whether an explainer was created.
CliOut(op, msg, m, a, names, call, inst, expl, old_instance, created) ==
    [op |-> op, msg |-> msg, model |-> m, adapter |-> a, feature_names |-> names,
     call |-> call, current_instance |-> inst, current_explainer |-> expl,
     old_instance |-> old_instance, created |-> created]

NoCliCall == [op |-> "-", msg |-> "-", old_instance |-> <<>>, created |-> FALSE]

\* ExplainableAICLI.load_model (Option 1) with the path typed and the files found
ExplainableAICLI_load_model(path, file, reread) ==
    LET r == ModelController_load_model(path, file, reread)
    IN  IF r.out.ok
        THEN CliOut("load_model", "Model loaded successfully!", r.model, r.adapter,
                    r.feature_names, r.out, [i \in 1..Len(r.out.val.items) |-> 0],
                    current_explainer, <<>>, FALSE)
        ELSE CliOut("load_model", "Failed to load model", r.model, r.adapter,
                    r.feature_names, r.out, current_instance, current_explainer, <<>>, FALSE)

\* The value enter_instance takes for position i (from 1) when the user types
\* typed: the current value, or 0.0 past the end of current_instance, for an
\* empty line, float(typed) otherwise.
EnteredValue(i, typed) ==
    IF typed = ""
    THEN IF i <= Len(current_instance) THEN current_instance[i] ELSE 0
    ELSE IF typed = "1" THEN 1 ELSE 0

\* ExplainableAICLI.enter_instance (Option 3), the user typing `first` for
\* the first feature and `rest` for every other one.
ExplainableAICLI_enter_instance(first, rest) ==
    IF ~is_model_loaded
    THEN CliOut("enter_instance", "No model loaded. Please load a model first.", model,
                adapter, feature_names, last, current_instance, current_explainer, <<>>, FALSE)
    ELSE LET fn == IF adapter = None
                   THEN Raise("AttributeError", Text("'NoneType' object has no attribute", 34))
                   ELSE get_feature_names(adapter)
         IN  IF ~fn.ok
             THEN CliOut("enter_instance", "Error during prediction", model, adapter,
                         feature_names, last, current_instance, current_explainer, <<>>, FALSE)
             ELSE LET new_instance == [i \in 1..Len(fn.val.items) |->
                                          EnteredValue(i, IF i = 1 THEN first ELSE rest)]
                      p == ModelController_predict(new_instance)
                  IN  CliOut("enter_instance",
                             IF p.ok THEN "Prediction Complete!" ELSE "Error during prediction",
                             model, adapter, feature_names, p, new_instance,
                             current_explainer, current_instance, FALSE)

\* ExplainableAICLI.generate_explanation (Option 4): choice is the explainer
\* type picked, explained whether the explainer's explain call came back.
ExplainableAICLI_generate_explanation(choice, has_shap, has_lime, explained) ==
    IF ~is_model_loaded
    THEN CliOut("generate_explanation", "No model loaded. Please load a model first.", model,
                adapter, feature_names, last, current_instance, current_explainer, <<>>, FALSE)
    ELSE IF Len(current_instance) = 0
    THEN CliOut("generate_explanation", "No instance entered.", model,
                adapter, feature_names, last, current_instance, current_explainer, <<>>, FALSE)
    ELSE LET fn == IF adapter = None
                   THEN Raise("AttributeError", Text("'NoneType' object has no attribute", 34))
                   ELSE get_feature_names(adapter)
         IN  IF ~fn.ok
             THEN CliOut("generate_explanation", "Error generating explanation", model,
                         adapter, feature_names, last, current_instance, current_explainer,
                         <<>>, FALSE)
             ELSE CliOut("generate_explanation",
                         IF explained THEN "Explanation generated successfully!"
                         ELSE "Error generating explanation",
                         model, adapter, feature_names, last, current_instance,
                         ExplainerFactory_create(model, fn.val, choice, has_shap, has_lime),
                         <<>>, TRUE)

\* ExplainableAICLI.undo_change (Option 5) on what command_manager.undo() gave
ExplainableAICLI_undo_change(r) ==
    IF r.returned = TRUE THEN "Last change undone successfully!" ELSE "Nothing to undo."

\* ExplainableAICLI.redo_change (Option 6) on what command_manager.redo() gave
ExplainableAICLI_redo_change(r) ==
    IF r.returned = TRUE THEN "Last change redone successfully!" ELSE "Nothing to redo."

-----------------------------------------------------------------------------
\* Inputs.

ErrShort == Text("e", ShortErrLen)
ErrLong == Text("E", LongErrLen)
ErrTexts == {ErrShort, ErrLong}

\* Bytes the compatibility unpickler parses with its default encoding, ASCII,
\* hold no text outside ASCII, and parse under every encoding.
CustomAll == {"custom:latin1", "custom:bytes", "custom:ASCII", "custom:None"}

\* The sets of decoders an artifact parses under: none, each single decoder,
\* some combinations, all.
DecoderSets ==
    {{key} : key \in DecoderKeys \ CustomAll} \cup
    {{"joblib", "pickle:latin1"},
     {"pickle:bytes", "pickle:ASCII", "custom:latin1"},
     {"pickle5:latin1", "dill"},
     {"dill"} \cup CustomAll,
     CustomAll,
     DecoderKeys}

\* A pickle written by Python 2 with text outside ASCII in it: the
\* compatibility unpickler parses it under latin1 and under bytes only.
Python2File == Bytes({"custom:latin1", "custom:bytes"}, TreeA, ErrShort)

\* The artifacts handed to ModelLoaderContext.load_model.
PickleFiles ==
    {Bytes({}, None, err) : err \in ErrTexts} \cup
    {Bytes(dec, obj, ErrShort) : dec \in DecoderSets, obj \in {TreeA, RuleB}} \cup
    {Python2File}

\* The artifacts handed to ModelController.load_model under a pickle extension.
ControllerFiles ==
    {Bytes({}, None, err) : err \in ErrTexts} \cup
    {Bytes(dec, obj, ErrShort) :
        dec \in {{"joblib"}, {"pickle:latin1"}, CustomAll}, obj \in PickledObjects}

JsonFiles == {Bytes({}, None, ErrShort), Bytes({"json"}, JsonDict, ErrShort),
              Bytes({"json"}, None, ErrShort)}

\* What the file at the path is replaced by while a load runs.
Replacement == Bytes({"joblib"}, RuleB, ErrShort)

Paths == {<<"model", ".pkl">>, <<"model", ".pickle">>, <<"model", ".json">>, <<"model", ".txt">>}

FilesFor(path) ==
    IF endswith(path, ".pkl") \/ endswith(path, ".pickle") THEN {Unreadable} \cup ControllerFiles
    ELSE IF endswith(path, ".json") THEN {Unreadable} \cup JsonFiles
    ELSE {Unreadable}

\* The paths typed into the CLI and the files found there.
CliPaths == {<<"model", ".pkl">>, <<"model", ".json">>}
CliFilesFor(path) ==
    IF endswith(path, ".pkl")
    THEN {Unreadable, Bytes({"joblib"}, TreeA, ErrShort), Bytes({"joblib"}, RuleB, ErrShort)}
    ELSE JsonFiles

\* What joblib.load(file_path) finds: the file read before, nothing, or a
\* replacement. It is opened only when joblib is there and failed on the bytes.
RereadsFor(file) ==
    IF file.readable /\ HAS_JOBLIB /\ "joblib" \notin file.dec
    THEN {file, Unreadable, Replacement}
    ELSE {file}

Instances == [1..InstLen -> 0..1]

\* The handles a ModelAdapter is built over: an object with any of the
\* attributes the adapter probes for. Absent stands for a missing attribute.
Absent == [cls |-> "absent"]
Attr(name, v) == IF v = Absent THEN [n \in {} |-> v] ELSE [n \in {name} |-> v]
Handle(fni, fn, n, pred, proba) ==
    [cls |-> "Estimator"] @@ Attr("feature_names_in_", fni) @@ Attr("feature_names", fn)
    @@ Attr("n_features_in_", n) @@ Attr("predict", pred) @@ Attr("predict_proba", proba)

Handles ==
    {Handle(fni, fn, n, pred, proba) :
        fni \in {Absent, PyList(<<"x", "y">>), None},
        fn \in {Absent, PyList(<<"p", "q", "r">>), PyList(<<"x", "x">>)},
        n \in {Absent, PyInt(2), PyInt(4)},
        pred \in {Absent, Method(1)},
        proba \in {Absent, Method(0)}}

\* The commands handed to CommandManager.execute: changes of the first and the
\* last position and of a position past the end, one with a callback, one
\* whose values do not format.
Commands ==
    {SliderChangeCommand(i, v, 1 - v, None, TRUE) : i \in {0, InstLen - 1, InstLen}, v \in 0..1}
    \cup {SliderChangeCommand(0, 0, 1, Callback, TRUE),
          SliderChangeCommand(0, 0, 1, None, FALSE)}

\* The observers: one that only receives, one whose update raises, one that
\* detaches itself, one that detaches the first, one that attaches the first.
Observers ==
    {Observer("plain", "-", "-"), Observer("failing", "raise", "-"),
     Observer("once", "detach_self", "-"), Observer("remover", "detach", "plain"),
     Observer("adder", "attach", "plain")}

\* What the user types for a feature value: nothing, or a number.
Typed == {"", "0", "1"}

\* The explainer types of the menu: lime, shap, decision_path, and auto (None).
ExplainerTypes == {"lime", "shap", "decision_path", "None"}

\* Hosts with shap and lime, with lime only, and with neither.
ExplainerHosts ==
    {[shap |-> TRUE, lime |-> TRUE], [shap |-> FALSE, lime |-> TRUE],
     [shap |-> FALSE, lime |-> FALSE]}

\* The feature_names argument of ModelAdapter(model, feature_names).
ExplicitNames == {None, PyList(<<>>), PyList(<<"a", "b">>)}

-----------------------------------------------------------------------------
\* Reading an aggregated failure back: its lines between the header and the
\* suggestion, and the strategy name each line starts with.

RECURSIVE SplitLines(_, _, _)
SplitLines(s, line, lines) ==
    IF Len(s) = 0 THEN Append(lines, line)
    ELSE IF Head(s) = Run("\n", 1) THEN SplitLines(Tail(s), <<>>, Append(lines, line))
    ELSE SplitLines(Tail(s), Append(line, Head(s)), lines)

EntryLines(text) == SplitLines(SubSeq(text, 2, Len(text) - 1), <<>>, <<>>)

EntryNames(text) == [i \in 1..Len(EntryLines(text)) |-> EntryLines(text)[i][1].s]

-----------------------------------------------------------------------------
\* The state machine.

\* The state before any call, the list the commands edit being instance.
InitWith(instance) ==
    /\ HAS_JOBLIB \in BOOLEAN
    /\ HAS_PICKLE5 \in BOOLEAN
    /\ HAS_DILL \in BOOLEAN
    /\ model = None
    /\ adapter = None
    /\ feature_names = PyList(<<>>)
    /\ loader = NotCalled
    /\ last = [op |-> "__init__", ok |-> TRUE, val |-> None, exc |-> "-", text |-> <<>>,
               cause |-> "-", stage |-> "-", delegated |-> FALSE]
    /\ everLoaded = FALSE
    /\ firstFailure = None
    /\ held = Holding(None, FALSE)
    /\ ad = None
    /\ adProba = FALSE
    /\ adOut = AdapterOut("-", Return(None), <<>>)
    /\ custom = NoCustomCall
    /\ _instance = None
    /\ allocated = 0
    /\ undo_stack = <<>>
    /\ redo_stack = <<>>
    /\ current_instance = instance
    /\ cmdOut = NoCommandCall
    /\ _observers = <<>>
    /\ subjOut = NoSubjectCall
    /\ current_explainer = None
    /\ cliOut = NoCliCall

\* self.current_instance = [] in ExplainableAICLI.__init__
Init == InitWith(<<>>)

AllFailed(c) == c.called /\ ~c.res.ok /\ c.res.exc = "ValueError"

\* ModelController.load_model(path) with the files the call finds.
LoadModel ==
    /\ _instance # None
    /\ \E path \in Paths :
      \E file \in FilesFor(path) :
        \E reread \in RereadsFor(file) :
          \E r \in {ModelController_load_model(path, file, reread)} :
              /\ model' = r.model
              /\ adapter' = r.adapter
              /\ feature_names' = r.feature_names
              /\ last' = r.out
              /\ everLoaded' = (everLoaded \/ r.out.ok)
              /\ held' = HeldAfter_load_model(r.out)
              /\ UNCHANGED <<HAS_JOBLIB, HAS_PICKLE5, HAS_DILL, loader, firstFailure,
                             adapterVars, customVars, singletonVars, commandVars, subjectVars, cliVars>>

\* ModelController.predict(instance)
Predict ==
    /\ _instance # None
    /\ \E instance \in Instances :
        /\ last' = ModelController_predict(instance)
        /\ UNCHANGED <<HAS_JOBLIB, HAS_PICKLE5, HAS_DILL, model, adapter, feature_names,
                       loader, everLoaded, firstFailure, callerVars, adapterVars, customVars,
                       singletonVars, commandVars, subjectVars, cliVars>>

\* ModelController(): __new__, then __init__ on what it gave
Construct ==
    \E n \in {ModelController___new__} :
      \E i \in {ModelController___init__(n.obj)} :
          /\ _instance' = i.self
          /\ allocated' = n.allocated
          /\ model' = i.model
          /\ adapter' = i.adapter
          /\ feature_names' = i.feature_names
          /\ last' = Constructed(i.self)
          /\ UNCHANGED <<HAS_JOBLIB, HAS_PICKLE5, HAS_DILL, loader, everLoaded, firstFailure,
                         callerVars, adapterVars, customVars, commandVars, subjectVars, cliVars>>

\* get_adapter().get_feature_names() by the controller's caller
GetFeatureNames ==
    /\ adapter # None
    /\ held' = HeldAfter_get_feature_names(get_feature_names(adapter))
    /\ UNCHANGED <<HAS_JOBLIB, HAS_PICKLE5, HAS_DILL, model, adapter, feature_names,
                   loader, last, everLoaded, firstFailure, adapterVars, customVars,
                   singletonVars, commandVars, subjectVars, cliVars>>

\* The caller calls pop() on the list it holds; the list the controller keeps
\* is changed with it when it is the same object.
CallerPops ==
    /\ held.obj # None
    /\ Len(held.obj.items) > 0
    /\ held.popped < MaxPops
    /\ held' = [held EXCEPT !.obj = pop(@), !.popped = @ + 1]
    /\ feature_names' = IF held.same THEN pop(feature_names) ELSE feature_names
    /\ UNCHANGED <<HAS_JOBLIB, HAS_PICKLE5, HAS_DILL, model, adapter,
                   loader, last, everLoaded, firstFailure, adapterVars, customVars,
                   singletonVars, commandVars, subjectVars, cliVars>>

Next == Construct \/ LoadModel \/ Predict \/ GetFeatureNames \/ CallerPops

Spec == Init /\ [][Next]_vars

\* ModelLoaderContext().load_model(file_path) on its own.
ContextLoad ==
    \E file \in {Unreadable} \cup PickleFiles :
      \E reread \in RereadsFor(file) :
        \E c \in {LoaderCall(file, reread)} :
            /\ loader' = c
            /\ firstFailure' =
                  IF ~AllFailed(c) THEN firstFailure
                  ELSE IF firstFailure = None
                  THEN [cls |-> "failure", items |-> EntryNames(c.res.text),
                        file |-> file, reread |-> reread, again |-> FALSE]
                  ELSE IF firstFailure.file = file /\ firstFailure.reread = reread
                  THEN [firstFailure EXCEPT !.again = TRUE]
                  ELSE firstFailure
            /\ UNCHANGED <<HAS_JOBLIB, HAS_PICKLE5, HAS_DILL, model, adapter,
                           feature_names, last, everLoaded,
                           callerVars, adapterVars, customVars, singletonVars, commandVars, subjectVars, cliVars>>

NextLoader == ContextLoad

SpecLoader == Init /\ [][NextLoader]_vars

\* CustomUnpicklerStrategy().load on the bytes of a file, on its own.
CustomLoad ==
    \E file \in PickleFiles :
        /\ custom' = CustomCall(file)
        /\ UNCHANGED <<HAS_JOBLIB, HAS_PICKLE5, HAS_DILL, model, adapter, feature_names,
                       loader, last, everLoaded, firstFailure, callerVars, adapterVars,
                       singletonVars, commandVars, subjectVars, cliVars>>

NextCustom == CustomLoad

SpecCustom == Init /\ [][NextCustom]_vars

\* CommandManager on its own, on a host with every backend.
InitCommand == InitWith([i \in 1..InstLen |-> 0]) /\ HAS_JOBLIB /\ HAS_PICKLE5 /\ HAS_DILL

CommandStep(r) ==
    /\ undo_stack' = r.undo_stack
    /\ redo_stack' = r.redo_stack
    /\ current_instance' = r.instance
    /\ cmdOut' = [k \in DOMAIN NoCommandCall |-> r[k]]
    /\ UNCHANGED <<HAS_JOBLIB, HAS_PICKLE5, HAS_DILL, model, adapter, feature_names,
                   loader, last, everLoaded, firstFailure, callerVars, adapterVars,
                   customVars, singletonVars, subjectVars, cliVars>>

\* command_manager.execute(cmd)
Execute ==
    /\ Len(undo_stack) < MaxStack
    /\ \E cmd \in Commands :
         \E cbRaises \in BOOLEAN :
            CommandStep(CommandManager_execute(cmd, undo_stack, redo_stack, current_instance, cbRaises))

\* command_manager.undo()
Undo ==
    \E cbRaises \in BOOLEAN :
        CommandStep(CommandManager_undo(undo_stack, redo_stack, current_instance, cbRaises))

\* command_manager.redo()
Redo ==
    \E cbRaises \in BOOLEAN :
        CommandStep(CommandManager_redo(undo_stack, redo_stack, current_instance, cbRaises))

NextCommand == Execute \/ Undo \/ Redo

SpecCommand == InitCommand /\ [][NextCommand]_vars

\* ExplainableAICLI: its menu options, on a host with every backend.
InitCLI == Init /\ HAS_JOBLIB /\ HAS_PICKLE5 /\ HAS_DILL

\* The fields a menu option writes through the controller and on the CLI.
CliStep(r) ==
    /\ model' = r.model
    /\ adapter' = r.adapter
    /\ feature_names' = r.feature_names
    /\ last' = r.call
    /\ current_instance' = r.current_instance
    /\ current_explainer' = r.current_explainer
    /\ cliOut' = [k \in DOMAIN NoCliCall |-> r[k]]
    /\ UNCHANGED <<HAS_JOBLIB, HAS_PICKLE5, HAS_DILL, loader, everLoaded, firstFailure,
                   callerVars, adapterVars, customVars, singletonVars, subjectVars,
                   undo_stack, redo_stack, cmdOut>>

\* Option 1
CliLoadModel ==
    /\ _instance # None
    /\ \E path \in CliPaths :
         \E file \in CliFilesFor(path) :
            CliStep(ExplainableAICLI_load_model(path, file, file))

\* Option 3
EnterInstance ==
    /\ _instance # None
    /\ \E first \in Typed :
         \E rest \in Typed :
            CliStep(ExplainableAICLI_enter_instance(first, rest))

\* Option 4
GenerateExplanation ==
    /\ _instance # None
    /\ \E choice \in ExplainerTypes :
         \E host \in ExplainerHosts :
            \E explained \in BOOLEAN :
               CliStep(ExplainableAICLI_generate_explanation(choice, host.shap, host.lime,
                                                             explained))

\* The stacks and the list after command_manager.undo() or redo(), and the
\* message the CLI shows for it.
CliCommandStep(op, r, msg) ==
    /\ undo_stack' = r.undo_stack
    /\ redo_stack' = r.redo_stack
    /\ current_instance' = r.instance
    /\ cmdOut' = [k \in DOMAIN NoCommandCall |-> r[k]]
    /\ cliOut' = [NoCliCall EXCEPT !.op = op, !.msg = msg]
    /\ UNCHANGED <<HAS_JOBLIB, HAS_PICKLE5, HAS_DILL, model, adapter, feature_names,
                   loader, last, everLoaded, firstFailure, callerVars, adapterVars,
                   customVars, singletonVars, subjectVars, current_explainer>>

\* Option 5
UndoChange ==
    /\ _instance # None
    /\ \E cbRaises \in BOOLEAN :
         \E r \in {CommandManager_undo(undo_stack, redo_stack, current_instance, cbRaises)} :
            CliCommandStep("undo_change", r, ExplainableAICLI_undo_change(r))

\* Option 6
RedoChange ==
    /\ _instance # None
    /\ \E cbRaises \in BOOLEAN :
         \E r \in {CommandManager_redo(undo_stack, redo_stack, current_instance, cbRaises)} :
            CliCommandStep("redo_change", r, ExplainableAICLI_redo_change(r))

NextCLI ==
    Construct \/ CliLoadModel \/ EnterInstance \/ GenerateExplanation \/ UndoChange \/ RedoChange

SpecCLI == InitCLI /\ [][NextCLI]_vars

\* ModelSubject on its own, on a host with every backend.
InitSubject == Init /\ HAS_JOBLIB /\ HAS_PICKLE5 /\ HAS_DILL

SubjectStep(observers, out) ==
    /\ _observers' = observers
    /\ subjOut' = out
    /\ UNCHANGED <<HAS_JOBLIB, HAS_PICKLE5, HAS_DILL, model, adapter, feature_names,
                   loader, last, everLoaded, firstFailure, callerVars, adapterVars,
                   customVars, singletonVars, commandVars, cliVars>>

\* subject.attach(observer)
Attach ==
    \E o \in Observers :
        /\ Contains(_observers, o) \/ Len(_observers) < MaxObservers
        /\ SubjectStep(ModelSubject_attach(_observers, o),
                       [NoSubjectCall EXCEPT !.op = "attach", !.arg = o])

\* subject.detach(observer)
Detach ==
    \E o \in Observers :
        SubjectStep(ModelSubject_detach(_observers, o),
                    [NoSubjectCall EXCEPT !.op = "detach", !.arg = o])

\* subject.notify(data)
Notify ==
    \E n \in {ModelSubject_notify(_observers, Observers)} :
        SubjectStep(n.observers,
                    [NoSubjectCall EXCEPT !.op = "notify", !.atStart = _observers,
                                          !.received = n.received, !.errors = n.errors])

NextSubject == Attach \/ Detach \/ Notify

SpecSubject == InitSubject /\ [][NextSubject]_vars

\* ModelAdapter on its own, on a host with every backend.
InitAdapter == Init /\ HAS_JOBLIB /\ HAS_PICKLE5 /\ HAS_DILL

\* ad = ModelAdapter(model, feature_names)
Adapt ==
    \E m \in Handles :
      \E names \in ExplicitNames :
          /\ ad' = ModelAdapter(m, names)
          /\ adProba' = hasattr(m, "predict_proba")
          /\ adOut' = AdapterOut("__init__", Return(None), <<>>)
          /\ UNCHANGED <<HAS_JOBLIB, HAS_PICKLE5, HAS_DILL, model, adapter, feature_names,
                         loader, last, everLoaded, firstFailure, callerVars, customVars,
                         singletonVars, commandVars, subjectVars, cliVars>>

\* ad.get_feature_names()
AdapterGetFeatureNames ==
    /\ ad # None
    /\ adOut' = AdapterOut("get_feature_names", get_feature_names(ad), <<>>)
    /\ UNCHANGED <<HAS_JOBLIB, HAS_PICKLE5, HAS_DILL, model, adapter, feature_names,
                   loader, last, everLoaded, firstFailure, callerVars, customVars,
                   singletonVars, commandVars, subjectVars, cliVars, ad, adProba>>

\* ad.predict(instance)
AdapterPredict ==
    /\ ad # None
    /\ \E instance \in Instances :
          adOut' = AdapterOut("predict", ModelAdapter_predict(ad, instance), instance)
    /\ UNCHANGED <<HAS_JOBLIB, HAS_PICKLE5, HAS_DILL, model, adapter, feature_names,
                   loader, last, everLoaded, firstFailure, callerVars, customVars,
                   singletonVars, commandVars, subjectVars, cliVars, ad, adProba>>

\* The owner of the handle gives it a predict_proba method, or takes it away,
\* after the adapter was built; the adapter holds the handle, not a copy.
HandleGainsProba ==
    /\ ad # None
    /\ ~hasattr(ad.model, "predict_proba")
    /\ ad' = [ad EXCEPT !.model = setattr(@, "predict_proba", Method(0))]
    /\ adOut' = AdapterOut("setattr", Return(None), <<>>)
    /\ UNCHANGED <<HAS_JOBLIB, HAS_PICKLE5, HAS_DILL, model, adapter, feature_names,
                   loader, last, everLoaded, firstFailure, callerVars, customVars,
                   singletonVars, commandVars, subjectVars, cliVars, adProba>>

HandleLosesProba ==
    /\ ad # None
    /\ hasattr(ad.model, "predict_proba")
    /\ ad' = [ad EXCEPT !.model = delattr(@, "predict_proba")]
    /\ adOut' = AdapterOut("delattr", Return(None), <<>>)
    /\ UNCHANGED <<HAS_JOBLIB, HAS_PICKLE5, HAS_DILL, model, adapter, feature_names,
                   loader, last, everLoaded, firstFailure, callerVars, customVars,
                   singletonVars, commandVars, subjectVars, cliVars, adProba>>

NextAdapter ==
    Adapt \/ AdapterGetFeatureNames \/ AdapterPredict \/ HandleGainsProba \/ HandleLosesProba

SpecAdapter == InitAdapter /\ [][NextAdapter]_vars

-----------------------------------------------------------------------------
\* Properties.

LoadFailed(l) == l.op = "load_model" /\ ~l.ok
AllStrategiesFailed(l) == LoadFailed(l) /\ l.stage = "loader" /\ l.cause = "ValueError"
NotLoadedError(l) ==
    /\ ~l.ok
    /\ l.exc = "Exception"
    /\ l.text = Lit("No model loaded. Please load a model first.")

\* C1: every failing ModelController.load_model call, whether it fails in the
\* loader stage or in the adapter/schema stage, leaves model, adapter and
\* feature_names as they were before the call.
C1_FailedLoadLeavesState ==
    [][LoadFailed(last') =>
         (model' = model /\ adapter' = adapter /\ feature_names' = feature_names)]_vars

\* C2: in every reachable state the triple (model, adapter, feature_names) is
\* entirely unset, or entirely from one successful load: the adapter wraps the
\* stored model and feature_names is the schema resolved from that adapter.
C2_TripleFromOneLoad ==
    \/ (model = None /\ adapter = None /\ feature_names = PyList(<<>>))
    \/ /\ adapter # None
       /\ adapter.model = model
       /\ get_feature_names(adapter).ok
       /\ feature_names = get_feature_names(adapter).val

\* C3: when a model is active and a load fails because every strategy failed,
\* the adapter is the one active before, and predict gives for every instance
\* the result it gave before the failed load.
C3_FailedLoadKeepsPredict ==
    [][(AllStrategiesFailed(last') /\ adapter # None) =>
         /\ adapter' = adapter
         /\ \A x \in Instances : ModelController_predict(x)' = ModelController_predict(x)]_vars

C3_Witness ==
    /\ AllStrategiesFailed(last)
    /\ adapter = ModelAdapter(TreeA, None)
    /\ \A x \in Instances : ModelController_predict(x).ok /\ ModelController_predict(x).delegated

\* C4: predict on a controller on which no load_model call has ever succeeded,
\* failed loads included, fails with the not-loaded error and does not
\* delegate to an adapter.
C4_PredictBeforeLoad ==
    (last.op = "predict" /\ ~everLoaded) => (NotLoadedError(last) /\ ~last.delegated)

\* The order the strategies are listed in, and the backend each one needs.
FullOrder ==
    <<JoblibMemoryStrategy, JoblibFileStrategy,
      StandardPickleStrategy("latin1"), StandardPickleStrategy("bytes"),
      StandardPickleStrategy("ASCII"),
      Pickle5Strategy("latin1"), Pickle5Strategy("latin1"),
      DillStrategy, CustomUnpicklerStrategy>>

BackendAvailable(strategy) ==
    CASE strategy.cls \in {"JoblibMemoryStrategy", "JoblibFileStrategy"} -> HAS_JOBLIB
      [] strategy.cls = "Pickle5Strategy" -> HAS_PICKLE5
      [] strategy.cls = "DillStrategy" -> HAS_DILL
      [] OTHER -> TRUE

\* The display names as the specification writes them.
DisplayName(strategy) ==
    CASE strategy = JoblibMemoryStrategy -> "joblib (memory)"
      [] strategy = JoblibFileStrategy -> "joblib (file)"
      [] strategy = StandardPickleStrategy("latin1") -> "Standard pickle (latin1)"
      [] strategy = StandardPickleStrategy("bytes") -> "Standard pickle (bytes)"
      [] strategy = StandardPickleStrategy("ASCII") -> "Standard pickle (ASCII)"
      [] strategy = Pickle5Strategy("latin1") -> "pickle5 (latin1)"
      [] strategy = DillStrategy -> "dill"
      [] strategy = CustomUnpicklerStrategy -> "Custom unpickler"

\* C5: for every combination of available backends the strategy list a
\* ModelLoaderContext builds is the subsequence of the full order whose
\* backend is available, in that order, with Custom unpickler last.
C5_RegistryIsAvailableSubsequence ==
    loader.called =>
        /\ loader.strategies = SelectSeq(FullOrder, BackendAvailable)
        /\ loader.strategies[Len(loader.strategies)] = CustomUnpicklerStrategy
        /\ \A i \in 1..Len(loader.strategies) : BackendAvailable(loader.strategies[i])

C5_Witness ==
    /\ loader.called
    /\ HAS_JOBLIB /\ ~HAS_PICKLE5 /\ HAS_DILL
    /\ Len(loader.strategies) = 7

\* The registry positions whose load succeeds on the files of call c, and the
\* first of them (0 when there is none).
Succeeding(c) ==
    {i \in 1..Len(c.strategies) : load(c.strategies[i], c.reread, c.file).ok}
FirstSuccess(c) ==
    IF Succeeding(c) = {} THEN 0
    ELSE CHOOSE i \in Succeeding(c) : \A j \in Succeeding(c) : i <= j

\* C6: in one ModelLoaderContext.load_model call the strategies whose load is
\* called are the prefix of the registry up to and including the first one
\* that succeeds (the whole registry when none does), once each, in order.
C6_AttemptsArePrefix ==
    (loader.called /\ loader.file.readable) =>
        /\ loader.attempts =
             [i \in 1..(IF FirstSuccess(loader) = 0 THEN Len(loader.strategies)
                        ELSE FirstSuccess(loader)) |-> i]
        /\ loader.res.ok <=> FirstSuccess(loader) # 0

C6_Witness ==
    /\ loader.called
    /\ loader.res.ok
    /\ Len(loader.attempts) = 3
    /\ Len(loader.strategies) = 9

AggregateKind == TryStrategies(<<>>, 1, Unreadable, Unreadable, <<>>, <<>>).res.exc

\* C8: when the file cannot be opened or read, ModelLoaderContext.load_model
\* fails before any strategy's load is called, with an error of another kind
\* than the aggregated failure.
C8_UnreadableFailsFirst ==
    (loader.called /\ ~loader.file.readable) =>
        /\ loader.attempts = <<>>
        /\ ~loader.res.ok
        /\ loader.res.exc = "OSError"
        /\ loader.res.exc # AggregateKind
        /\ loader.stdout = <<>>

C8_Witness ==
    /\ loader.called
    /\ ~loader.file.readable
    /\ ~loader.res.ok
    /\ Len(loader.strategies) = 9

\* C9: when every strategy fails, the error is the header, one line per
\* registry strategy in registry order, each starting with its strategy's
\* name, and then the fixed suggestion naming the regeneration script.
C9_AggregateListsEveryStrategy ==
    AllFailed(loader) =>
        /\ Head(loader.res.text) = Run("Failed to load model with all strategies:\n", 1)
        /\ loader.res.text[Len(loader.res.text)] =
             Run("\n\nSuggestion: Try regenerating the model with: python models/create_sample_models.py", 1)
        /\ Len(EntryLines(loader.res.text)) = Len(loader.strategies)
        /\ \A i \in 1..Len(loader.strategies) :
             /\ EntryLines(loader.res.text)[i][1] = Run(DisplayName(loader.strategies[i]), 1)
             /\ EntryLines(loader.res.text)[i][2] = Run(": ", 1)
        /\ loader.attempts = [i \in 1..Len(loader.strategies) |-> i]

C9_Witness ==
    /\ AllFailed(loader)
    /\ Len(loader.strategies) = 9
    /\ loader.file.err = ErrLong

\* C10: every load_model call works on the same registry as the call before
\* it and starts at its first entry, whatever the earlier call gave, and every
\* aggregated failure, of the same artifact or another, lists the strategies
\* in the order of the first one.
C10_NoCachingAcrossCalls ==
    [][loader'.called =>
         /\ loader.called => loader'.strategies = loader.strategies
         /\ loader'.file.readable => loader'.attempts[1] = 1
         /\ (AllFailed(loader') /\ firstFailure # None) =>
                EntryNames(loader'.res.text) = firstFailure.items]_vars

C10_Witness ==
    /\ AllFailed(loader)
    /\ firstFailure # None
    /\ firstFailure.again
    /\ loader.file = firstFailure.file
    /\ loader.reread = firstFailure.reread
    /\ EntryNames(loader.res.text) = firstFailure.items
    /\ Len(firstFailure.items) = 9

-----------------------------------------------------------------------------
\* ModelAdapter.

AdapterResolved == adOut.op = "get_feature_names" /\ adOut.ok
ExplicitGiven == ad._feature_names.cls = "list" /\ Len(ad._feature_names.items) > 0
Embeds(name) == hasattr(ad.model, name) /\ ad.model[name].cls = "list"

\* C11: get_feature_names gives the explicit names when there are any; else the
\* handle's feature_names_in_ when it has that attribute; else its
\* feature_names; else n_features_in_ placeholders; else 10 placeholders; the
\* embedded names come back item for item in their order, and a later rule
\* never answers for an earlier attribute.
C11_FirstMatchWins ==
    adOut.op = "get_feature_names" =>
        /\ ExplicitGiven => (adOut.ok /\ adOut.val.items = ad._feature_names.items)
        /\ (~ExplicitGiven /\ hasattr(ad.model, "feature_names_in_")) =>
              IF Embeds("feature_names_in_")
              THEN adOut.ok /\ adOut.val.items = ad.model.feature_names_in_.items
              ELSE ~adOut.ok
        /\ (~ExplicitGiven /\ ~hasattr(ad.model, "feature_names_in_")
              /\ hasattr(ad.model, "feature_names")) =>
              (adOut.ok /\ adOut.val.items = ad.model.feature_names.items)
        /\ (~ExplicitGiven /\ ~hasattr(ad.model, "feature_names_in_")
              /\ ~hasattr(ad.model, "feature_names")) =>
              (adOut.ok /\ \A i \in 1..Len(adOut.val.items) :
                              adOut.val.items[i] \notin {"a", "b", "x", "y", "p", "q", "r"})
        /\ (ad._feature_names = PyList(<<"a", "b">>)
              /\ Embeds("feature_names_in_")
              /\ ad.model.feature_names_in_ = PyList(<<"x", "y">>)) =>
              adOut.val = PyList(<<"a", "b">>)

C11_Witness ==
    /\ AdapterResolved
    /\ ~ExplicitGiven
    /\ Embeds("feature_names_in_")
    /\ Embeds("feature_names")
    /\ hasattr(ad.model, "n_features_in_")
    /\ adOut.val = PyList(<<"x", "y">>)

\* C12: a handle with no names and n_features_in_ = n gives exactly Feature_0 ..
\* Feature_{n-1} in index order, and a handle with neither names nor a width
\* gives exactly Feature_0 .. Feature_9.
C12_PlaceholderNames ==
    (adOut.op = "get_feature_names" /\ ~ExplicitGiven
       /\ ~hasattr(ad.model, "feature_names_in_") /\ ~hasattr(ad.model, "feature_names")) =>
        /\ adOut.ok
        /\ (hasattr(ad.model, "n_features_in_") /\ ad.model.n_features_in_ = PyInt(4)) =>
              adOut.val.items = <<"Feature_0", "Feature_1", "Feature_2", "Feature_3">>
        /\ (hasattr(ad.model, "n_features_in_") /\ ad.model.n_features_in_ = PyInt(2)) =>
              adOut.val.items = <<"Feature_0", "Feature_1">>
        /\ ~hasattr(ad.model, "n_features_in_") =>
              adOut.val.items =
                <<"Feature_0", "Feature_1", "Feature_2", "Feature_3", "Feature_4",
                  "Feature_5", "Feature_6", "Feature_7", "Feature_8", "Feature_9">>

C12_Witness ==
    /\ AdapterResolved
    /\ ad._feature_names = None
    /\ DOMAIN ad.model = {"cls", "n_features_in_"}
    /\ ad.model.n_features_in_ = PyInt(4)
    /\ Len(adOut.val.items) = 4

\* C13: whenever the handle exposes an input width n_features_in_ and
\* get_feature_names resolves a schema, the schema has as many names as the
\* input width.
C13_SchemaLengthIsWidth ==
    (AdapterResolved /\ hasattr(ad.model, "n_features_in_")
       /\ ad.model.n_features_in_.cls = "int") =>
        Len(adOut.val.items) = ad.model.n_features_in_.val

\* C14: the schema get_feature_names returns never has the same name twice.
C14_SchemaHasNoDuplicates ==
    AdapterResolved =>
        \A i, j \in 1..Len(adOut.val.items) :
            i # j => adOut.val.items[i] # adOut.val.items[j]

\* C15: for every flat vector v and a handle that can predict, predict(v)
\* gives as label the first row of the handle's own predict on the one-row
\* batch [v], and as probabilities the first row of the handle's own
\* predict_proba on [v] when the handle has that method, None when it has not.
C15_PredictIsNativeFirstRow ==
    (adOut.op = "predict" /\ hasattr(ad.model, "predict")) =>
        /\ adOut.ok
        /\ adOut.val.label = PyInt(NativePredict(ad.model, <<adOut.instance>>)[1])
        /\ adOut.val.label.val = (ad.model.predict.w + Sum(adOut.instance)) % 2
        /\ IF hasattr(ad.model, "predict_proba")
           THEN adOut.val.probabilities =
                    PyList(NativeProba(ad.model, <<adOut.instance>>)[1])
           ELSE adOut.val.probabilities = None

C15_Witness ==
    /\ adOut.op = "predict"
    /\ adOut.ok
    /\ hasattr(ad.model, "predict_proba")
    /\ Sum(adOut.instance) = 1
    /\ adOut.val.label = PyInt((ad.model.predict.w + 1) % 2)
    /\ adOut.val.probabilities # None

\* C16: whether predict returns probabilities is fixed by whether the handle
\* had a probability method when the adapter was constructed, whatever the
\* handle has gained or lost since.
C16_ProbabilityFixedAtConstruction ==
    (adOut.op = "predict" /\ adOut.ok) => ((adOut.val.probabilities # None) <=> adProba)

\* C17: on a handle with no predict method, as the data of a .json artifact,
\* every predict call through the controller ends in the raised error of the
\* missing method; none returns a (label, probabilities) value.
C17_NoCapabilityIsHardError ==
    (last.op = "predict" /\ adapter # None /\ ~hasattr(adapter.model, "predict")) =>
        /\ ~last.ok
        /\ last.delegated
        /\ last.exc = "AttributeError"
        /\ last.val = None

C17_Witness ==
    /\ last.op = "predict"
    /\ model = JsonDict
    /\ adapter = ModelAdapter(JsonDict, None)
    /\ ~last.ok
    /\ last.exc = "AttributeError"

\* C18: when the caller changes the list it got from load_model or from the
\* adapter's get_feature_names, the controller's feature_names stays as it
\* was, and so does what get_feature_names gives afterwards.
C18_ReturnedListsDoNotAlias ==
    [][held'.popped = held.popped + 1 =>
         /\ feature_names' = feature_names
         /\ adapter # None => get_feature_names(adapter)' = get_feature_names(adapter)]_vars

-----------------------------------------------------------------------------
\* Error reporting and the custom unpickler.

\* len(s)
RECURSIVE CharCount(_)
CharCount(s) == IF Len(s) = 0 THEN 0 ELSE Head(s).n + CharCount(Tail(s))

\* The message part of the i-th entry of the aggregated failure of call c (what
\* follows the strategy's name and ": "), and the whole error text the
\* strategy raised.
EntryMessage(c, i) ==
    SubSeq(EntryLines(c.res.text)[i], 3, Len(EntryLines(c.res.text)[i]))
UnderlyingText(c, i) == load(c.strategies[i], c.reread, c.file).text

\* C19: in the aggregated failure the message part of every entry is at most
\* 50 characters long: the whole error text when that is no longer than 50
\* characters, its first 50 characters otherwise.
C19_EntryMessageAtMost50 ==
    AllFailed(loader) =>
        \A i \in 1..Len(loader.strategies) :
            /\ CharCount(EntryMessage(loader, i)) <= 50
            /\ CharCount(EntryMessage(loader, i)) =
                 (IF CharCount(UnderlyingText(loader, i)) <= 50
                  THEN CharCount(UnderlyingText(loader, i)) ELSE 50)

C19_Witness ==
    /\ AllFailed(loader)
    /\ \E i \in 1..Len(loader.strategies) :
          /\ CharCount(UnderlyingText(loader, i)) > 50
          /\ CharCount(EntryMessage(loader, i)) = 50
    /\ \E i \in 1..Len(loader.strategies) :
          /\ CharCount(UnderlyingText(loader, i)) < 50
          /\ EntryMessage(loader, i) = UnderlyingText(loader, i)

\* The positions in the encoding list latin1, bytes, ASCII, none under which
\* the bytes of a file parse, and the first of them (0 when there is none).
ParsingEncodings(file) ==
    {i \in 1..4 : CustomKey(<<"latin1", "bytes", "ASCII", "None">>[i]) \in file.dec}
FirstParsing(file) ==
    IF ParsingEncodings(file) = {} THEN 0
    ELSE CHOOSE i \in ParsingEncodings(file) : \A j \in ParsingEncodings(file) : i <= j

\* C20: CustomUnpicklerStrategy.load goes through latin1, bytes, ASCII and none
\* in that order up to and including the first encoding the bytes parse
\* under, returns the object parsed under that encoding, and raises only
\* when the bytes parse under none of the four.
C20_CustomTriesEncodingsInOrder ==
    custom.called =>
        /\ custom.tried =
             SubSeq(<<"latin1", "bytes", "ASCII", "None">>, 1,
                    IF FirstParsing(custom.file) = 0 THEN 4 ELSE FirstParsing(custom.file))
        /\ custom.res.ok <=> FirstParsing(custom.file) # 0
        /\ custom.res.ok => custom.res.val = custom.file.obj

-----------------------------------------------------------------------------
\* The artifact's bytes within one load.

\* The strategy whose load gave the result of call c.
Winner(c) == c.strategies[c.attempts[Len(c.attempts)]]

\* C22 as stated: every strategy decodes the bytes read at the start of the
\* call, so a successful load gives the object those bytes hold, whatever the
\* file on disk has become since.
C22_EveryStrategyDecodesTheReadBytes ==
    (loader.called /\ loader.res.ok) =>
        /\ loader.file.dec # {}
        /\ loader.res.val = loader.file.obj

\* C22 as amended: load_model reads the file once and every strategy but
\* joblib (file) decodes those bytes, its outcome not depending on what the
\* path holds later; joblib (file) opens the path again and gives the object
\* of the file it finds then.
C22_OnlyJoblibFileRereads ==
    (loader.called /\ loader.file.readable) =>
        /\ \A n \in 1..Len(loader.attempts) :
              LET strategy == loader.strategies[loader.attempts[n]]
              IN  strategy.cls # "JoblibFileStrategy" =>
                     /\ load(strategy, loader.reread, loader.file)
                          = load(strategy, Unreadable, loader.file)
                     /\ load(strategy, loader.reread, loader.file).ok =>
                          load(strategy, loader.reread, loader.file).val = loader.file.obj
        /\ loader.res.ok =>
              loader.res.val = (IF Winner(loader).cls = "JoblibFileStrategy"
                                THEN loader.reread.obj ELSE loader.file.obj)

C22_Witness ==
    /\ loader.called
    /\ loader.res.ok
    /\ Winner(loader).cls = "JoblibFileStrategy"
    /\ loader.file.dec = {}
    /\ loader.reread = Replacement
    /\ loader.res.val = RuleB

-----------------------------------------------------------------------------
\* The controller as a singleton.

\* C23: every ModelController() gives the one object created by the first
\* construction, and a construction after the first leaves model, adapter and
\* feature_names as they are.
C23_ConstructionGivesTheOneController ==
    [][(last'.op = "ModelController" /\ held' = held) =>
         /\ allocated' = 1
         /\ last'.val.serial = 1
         /\ _instance'.serial = 1
         /\ _instance # None =>
               (model' = model /\ adapter' = adapter /\ feature_names' = feature_names)]_vars

C23_Witness ==
    /\ last.op = "ModelController"
    /\ allocated = 1
    /\ model = TreeA
    /\ adapter = ModelAdapter(TreeA, None)
    /\ feature_names = PyList(<<"age", "income">>)

\* C29: in every state is_model_loaded() is true exactly when predict does
\* not fail with the no-model-loaded error.
C29_LoadedIffPredictable ==
    _instance # None =>
        /\ is_model_loaded <=> (adapter # None)
        /\ \A x \in Instances :
              is_model_loaded <=> ~NotLoadedError(ModelController_predict(x))

-----------------------------------------------------------------------------
\* CommandManager.

\* C24: execute of a command whose execute succeeds puts the command on top of
\* the undo stack and empties the redo stack; when the command's execute
\* raises, execute returns normally and both stacks are as before.
C24_ExecutePushesOrLeavesStacks ==
    [][cmdOut'.op = "execute" =>
         /\ cmdOut'.returned = None
         /\ IF cmdOut'.raised
            THEN undo_stack' = undo_stack /\ redo_stack' = redo_stack
            ELSE undo_stack' = Append(undo_stack, cmdOut'.cmd) /\ redo_stack' = <<>>]_vars

C24_Witness ==
    /\ cmdOut.op = "execute"
    /\ cmdOut.raised
    /\ cmdOut.stdout = "Error executing command"
    /\ Len(undo_stack) > 0
    /\ Len(redo_stack) > 0
    /\ cmdOut.cmd \notin {undo_stack[i] : i \in 1..Len(undo_stack)}

\* C27: no recorded command is lost: every undo and every redo, also one in
\* which the command's own undo or execute raises, leaves the combined number
\* of commands on the two stacks unchanged.
C27_UndoRedoKeepEveryCommand ==
    [][cmdOut'.op \in {"undo", "redo"} =>
         Len(undo_stack') + Len(redo_stack') = Len(undo_stack) + Len(redo_stack)]_vars

\* The redo that immediately follows the state reached by an undo.
RedoAfter(us, rs, inst, cbRaises) == CommandManager_redo(us, rs, inst, cbRaises)

\* C25: for a non-empty undo stack, undo leaves instance[feature_index] equal
\* to old_val, and the redo that follows at once puts both stacks back to
\* their contents before the undo and instance[feature_index] back to new_val
\* with every other position as before the undo.
C25_UndoThenRedoIsIdentity ==
    [][(cmdOut'.op = "undo" /\ Len(undo_stack) > 0) =>
         LET cmd == undo_stack[Len(undo_stack)]
             at == cmd.feature_index + 1
         IN  /\ current_instance'[at] = cmd.old_val
             /\ \A cbRaises \in BOOLEAN :
                  LET r == RedoAfter(undo_stack', redo_stack', current_instance', cbRaises)
                  IN  /\ r.undo_stack = undo_stack
                      /\ r.redo_stack = redo_stack
                      /\ r.instance[at] = cmd.new_val
                      /\ \A i \in 1..Len(current_instance) :
                           i # at => r.instance[i] = current_instance[i]]_vars

-----------------------------------------------------------------------------
\* ModelSubject.

\* How many times observer o occurs in the sequence lst.
Times(lst, o) == Cardinality({i \in 1..Len(lst) : lst[i] = o})

\* lst without the elements that are not in keep, in the same order.
RECURSIVE Only(_, _)
Only(lst, keep) ==
    IF lst = <<>> THEN <<>>
    ELSE IF Contains(keep, Head(lst)) THEN <<Head(lst)>> \o Only(Tail(lst), keep)
    ELSE Only(Tail(lst), keep)

\* C26: notify calls update exactly once on each attached observer, in attach
\* order, also after an observer whose update raised (stated for the
\* observers attached both when notify starts and when it ends); attaching an
\* attached observer and detaching one that is not attached change nothing.
C26_NotifyReachesEveryObserverOnce ==
    [][/\ subjOut'.op = "notify" =>
            Only(Only(subjOut'.received, subjOut'.atStart), _observers')
                = Only(subjOut'.atStart, _observers')
       /\ (subjOut'.op = "attach" /\ Contains(_observers, subjOut'.arg)) =>
            _observers' = _observers
       /\ (subjOut'.op = "detach" /\ ~Contains(_observers, subjOut'.arg)) =>
            _observers' = _observers]_vars

\* C28: when updates detach or attach observers while notify runs, every
\* observer attached when notify started and not detached during it has
\* received the notification exactly once.
C28_MutationDuringNotifyLosesNobody ==
    subjOut.op = "notify" =>
        \A i \in 1..Len(subjOut.atStart) :
            Contains(_observers, subjOut.atStart[i]) =>
                Times(subjOut.received, subjOut.atStart[i]) = 1

-----------------------------------------------------------------------------
\* ExplainableAICLI.

\* C21: whenever the application creates an explainer, the object handed to
\* the explanation layer is the adapter; the raw handle the loader returned is
\* never handed to it.
C21_ExplainerGetsTheAdapter ==
    (cliOut.op = "generate_explanation" /\ cliOut.created) =>
        /\ current_explainer.model = adapter
        /\ current_explainer.model # model

\* C30: after enter_instance has replaced current_instance with different
\* values, undo_change is not answered with "Nothing to undo." and puts
\* current_instance back to the values it had before that entry.
C30_UndoRestoresEnteredInstance ==
    [][(/\ cliOut.op = "enter_instance"
        /\ cliOut.old_instance # current_instance
        /\ cliOut'.op = "undo_change") =>
           /\ cliOut'.msg # "Nothing to undo."
           /\ current_instance' = cliOut.old_instance]_vars

====
